---- MODULE Spec2Model ----
(***************************************************************************)
(* State-machine model of src/app.py: the in-memory session store, the     *)
(* Gemini client with its retry loop, the JSON-fragment extraction and the *)
(* four Flask handlers upload_resume, setup_interview, submit_answer and   *)
(* get_assessment.                                                         *)
(*                                                                         *)
(* A handler runs in three atomic segments: everything up to the call of   *)
(* generate_content_with_gemini, one step per iteration of the retry loop  *)
(* (one model call each), and everything after the call returned.  The     *)
(* Flask development server is threaded, so segments of different requests *)
(* interleave at the blocking model calls.                                 *)
(*                                                                         *)
(* Python values are modelled as tagged records of one fixed shape, Python *)
(* strings as sequences of one-character strings, and a model response as  *)
(* a sequence of tokens (fence markers, whitespace, junk, or the           *)
(* serialisation of one JSON value).                                       *)
(***************************************************************************)
EXTENDS Integers, Sequences, FiniteSets, TLC

VARIABLES sessions, req

vars == <<sessions, req>>

(***************************************************************************)
(* Python / JSON values                                                    *)
(***************************************************************************)
JV(t, n, s, l, o) == [t |-> t, n |-> n, s |-> s, l |-> l, o |-> o]

None == JV("null", 0, <<>>, <<>>, <<>>)

Num(n) == JV("num", n, <<>>, <<>>, <<>>)

Str(s) == JV("str", 0, s, <<>>, <<>>)

List(l) == JV("list", 0, <<>>, l, <<>>)

Obj(o) == JV("obj", 0, <<>>, <<>>, o)

KV(k, v) == [k |-> k, v |-> v]

IsStr(v) == v.t = "str"

IsList(v) == v.t = "list"

IsDict(v) == v.t = "obj"

\* Python truthiness: None, 0, "", [] and {} are falsy.
Truthy(v) ==
    CASE v.t = "null" -> FALSE
      [] v.t = "num"  -> v.n # 0
      [] v.t = "str"  -> v.s # <<>>
      [] v.t = "list" -> v.l # <<>>
      [] v.t = "obj"  -> v.o # <<>>

\* k in d
HasKey(d, k) == \E i \in 1..Len(d.o) : d.o[i].k = k

\* d[k], for a key that is present
Item(d, k) == d.o[CHOOSE i \in 1..Len(d.o) : d.o[i].k = k].v

\* d.get(k, default), for a dict d
Get(d, k, default) == IF HasKey(d, k) THEN Item(d, k) ELSE default

\* d[k] = v
SetItem(d, k, v) ==
    IF HasKey(d, k)
    THEN Obj([i \in 1..Len(d.o) |-> IF d.o[i].k = k THEN KV(k, v) ELSE d.o[i]])
    ELSE Obj(Append(d.o, KV(k, v)))

(***************************************************************************)
(* Strings                                                                 *)
(***************************************************************************)
IsSpace(c) == c = " "

RECURSIVE LStrip(_)
LStrip(s) == IF s # <<>> /\ IsSpace(Head(s)) THEN LStrip(Tail(s)) ELSE s

RECURSIVE RStrip(_)
RStrip(s) ==
    IF s # <<>> /\ IsSpace(s[Len(s)]) THEN RStrip(SubSeq(s, 1, Len(s) - 1)) ELSE s

\* str.strip()
StrStrip(s) == RStrip(LStrip(s))

\* str.split(sep): the pieces between the separators, empty pieces included
RECURSIVE SplitAcc(_, _, _)
SplitAcc(s, sep, cur) ==
    IF s = <<>> THEN <<cur>>
    ELSE IF Head(s) = sep THEN <<cur>> \o SplitAcc(Tail(s), sep, <<>>)
    ELSE SplitAcc(Tail(s), sep, Append(cur, Head(s)))

Split(s, sep) == SplitAcc(s, sep, <<>>)

Digits == <<"0", "1", "2", "3", "4", "5", "6", "7", "8", "9">>

IsDigit(c) == \E i \in 1..10 : Digits[i] = c

DigitVal(c) == (CHOOSE i \in 1..10 : Digits[i] = c) - 1

RECURSIVE NatVal(_)
NatVal(s) == IF s = <<>> THEN 0 ELSE 10 * NatVal(SubSeq(s, 1, Len(s) - 1)) + DigitVal(s[Len(s)])

AllDigits(s) == s # <<>> /\ \A i \in 1..Len(s) : IsDigit(s[i])

\* int(s) accepts surrounding whitespace and one leading sign; anything else
\* raises ValueError.
IntBody(s) == IF s # <<>> /\ Head(s) \in {"-", "+"} THEN Tail(s) ELSE s

IntOk(s) == AllDigits(IntBody(StrStrip(s)))

IntVal(s) ==
    LET b == StrStrip(s)
    IN  IF b # <<>> /\ Head(b) = "-" THEN 0 - NatVal(IntBody(b)) ELSE NatVal(IntBody(b))

RECURSIVE NatStr(_)
NatStr(n) == IF n < 10 THEN <<Digits[n + 1]>> ELSE NatStr(n \div 10) \o <<Digits[(n % 10) + 1]>>

\* str(n) for an int
IntStr(n) == IF n < 0 THEN <<"-">> \o NatStr(0 - n) ELSE NatStr(n)

(***************************************************************************)
(* Model responses as token sequences, json.loads, and the fence regex     *)
(***************************************************************************)
Tok(k, v) == [k |-> k, v |-> v]

TFence == Tok("fence", None)   \* the characters ```json

TTicks == Tok("ticks", None)   \* the characters ```

TWs == Tok("ws", None)         \* whitespace

TJunk == Tok("junk", None)     \* text that is not JSON

TJson(v) == Tok("json", v)     \* the serialisation of the JSON value v

RECURSIVE TLStrip(_)
TLStrip(x) == IF x # <<>> /\ Head(x).k = "ws" THEN TLStrip(Tail(x)) ELSE x

RECURSIVE TRStrip(_)
TRStrip(x) ==
    IF x # <<>> /\ x[Len(x)].k = "ws" THEN TRStrip(SubSeq(x, 1, Len(x) - 1)) ELSE x

TextStrip(x) == TRStrip(TLStrip(x))

\* json.loads(x) returns a value iff x is one JSON value with optional
\* whitespace around it; otherwise it raises.
JsonOk(x) == Len(TextStrip(x)) = 1 /\ TextStrip(x)[1].k = "json"

JsonLoads(x) == TextStrip(x)[1].v

\* A Python value that may be None
Nothing == [none |-> TRUE, text |-> <<>>]

Just(x) == [none |-> FALSE, text |-> x]

\* ``` also matches the first three characters of ```json
ClosesFence(tok) == tok.k \in {"ticks", "fence"}

FenceMatches(x) ==
    {p \in (1..Len(x)) \X (1..Len(x)) :
        /\ p[1] < p[2]
        /\ x[p[1]].k = "fence"
        /\ ClosesFence(x[p[2]])}

extract_json_from_gemini_response(text) ==
    IF text.none \/ text.text = <<>> THEN Nothing
    ELSE LET x == text.text
             M == FenceMatches(x)
         IN  IF M # {}
             THEN LET i == CHOOSE i \in {p[1] : p \in M} : \A p \in M : i <= p[1]
                      j == CHOOSE j \in {p[2] : p \in M} :
                               /\ <<i, j>> \in M
                               /\ \A p \in M : p[1] = i => j <= p[2]
                  IN  Just(TextStrip(SubSeq(x, i + 1, j - 1)))
             ELSE Just(TextStrip(x))

(***************************************************************************)
(* generate_content_with_gemini: one iteration of the retry loop           *)
(***************************************************************************)
\* What one model.generate_content call produces
Raises == [kind |-> "raise", text |-> <<>>]

Empty == [kind |-> "empty", text |-> <<>>]

Text(x) == [kind |-> "text", text |-> x]

NoResp == [kind |-> "nocall", text |-> <<>>]

DefaultRetries == 3

\* LoopBody with the `attempt += 1` of the empty-response branch left out
LoopBodyEmptyNotCounted(attempt, retries, resp) ==
    IF resp.kind = "text" /\ resp.text # <<>> /\ JsonOk(resp.text)
    THEN [attempt |-> attempt, done |-> TRUE, ret |-> Just(resp.text)]
    ELSE IF resp.kind = "empty" \/ (resp.kind = "text" /\ resp.text = <<>>)
    THEN [attempt |-> attempt, done |-> FALSE, ret |-> Nothing]
    ELSE [attempt |-> attempt + 1, done |-> attempt + 1 >= retries, ret |-> Nothing]

\* One pass through the body of `while attempt < retries`, given the outcome
\* of the model call: the new attempt counter, whether the function returned
\* and what it returned.
LoopBody(attempt, retries, resp) ==
    IF resp.kind = "text" /\ resp.text # <<>> /\ JsonOk(resp.text)
    THEN [attempt |-> attempt, done |-> TRUE, ret |-> Just(resp.text)]
    ELSE IF resp.kind = "empty" \/ (resp.kind = "text" /\ resp.text = <<>>)
    THEN [attempt |-> attempt + 1, done |-> ~(attempt + 1 < retries), ret |-> Nothing]
    ELSE [attempt |-> attempt + 1, done |-> attempt + 1 >= retries, ret |-> Nothing]

(***************************************************************************)
(* Session store                                                           *)
(***************************************************************************)
\* The key interview_assessment is absent from a new session's dict.
Missing == JV("missing", 0, <<>>, <<>>, <<>>)

NewSession ==
    [candidate_profile    |-> None,
     interview_questions  |-> List(<<>>),
     interview_responses  |-> List(<<>>),
     interview_start_time |-> None,
     interview_end_time   |-> None,
     interview_assessment |-> Missing]

\* get_or_create_session without its `if session_id not in sessions` test
get_or_create_session_always(S, session_id) ==
    [x \in DOMAIN S \cup {session_id} |-> IF x = session_id THEN NewSession ELSE S[x]]

\* The sessions dict after get_or_create_session(session_id)
get_or_create_session(S, session_id) ==
    IF session_id \in DOMAIN S THEN S
    ELSE [x \in DOMAIN S \cup {session_id} |-> IF x = session_id THEN NewSession ELSE S[x]]

\* datetime.now().isoformat(): some non-empty string
Now == Str(<<"T">>)

(***************************************************************************)
(* Requests in flight                                                      *)
(***************************************************************************)
Threads == {"t1", "t2"}

Idle ==
    [pc |-> "idle", op |-> "none", sid |-> "",
     retries |-> 0, attempt |-> 0, calls |-> 0, resp |-> NoResp, ai_text |-> Nothing,
     position_role |-> None, question_id |-> None, question_obj |-> None,
     response_text |-> None, duration |-> None, interview_duration_str |-> <<>>,
     status |-> "", body |-> None]

\* return jsonify(body), status
Respond(r, status, body) == [r EXCEPT !.pc = "responded", !.status = status, !.body = body]

\* An exception raised outside every try block leaves the handler.
Unhandled(r) == [r EXCEPT !.pc = "responded", !.status = "unhandled"]

\* The handler reaches its call generate_content_with_gemini(model, prompt).
CallGemini(r, retries) ==
    IF 0 < retries
    THEN [r EXCEPT !.pc = "gemini", !.retries = retries, !.attempt = 0]
    ELSE [r EXCEPT !.pc = "returned", !.retries = retries, !.attempt = 0, !.ai_text = Nothing]

\* X-User-Session-Id header: absent, or a string
NoHeader == [present |-> FALSE, id |-> ""]

Header(id) == [present |-> TRUE, id |-> id]

\* `not session_id or session_id not in sessions`
BadSession(h) == ~h.present \/ h.id = "" \/ h.id \notin DOMAIN sessions

(***************************************************************************)
(* The retry loop of generate_content_with_gemini, one model call per step *)
(***************************************************************************)
GeminiAttempt(t, resp) ==
    /\ req[t].pc = "gemini"
    /\ req[t].attempt < req[t].retries
    /\ LET b == LoopBody(req[t].attempt, req[t].retries, resp)
       IN  req' = [req EXCEPT ![t] =
                     [@ EXCEPT !.calls = @ + 1,
                               !.resp = resp,
                               !.attempt = b.attempt,
                               !.pc = IF b.done THEN "returned" ELSE "gemini",
                               !.ai_text = b.ret]]
    /\ UNCHANGED sessions

\* A direct call generate_content_with_gemini(model, prompt, retries = n)
ClientCall(t, n) ==
    /\ req[t].pc = "idle"
    /\ req' = [req EXCEPT ![t] = CallGemini([Idle EXCEPT !.op = "client"], n)]
    /\ UNCHANGED sessions

\* The request is over; its thread serves the next one.
Retire(t) ==
    /\ \/ req[t].pc = "responded"
       \/ req[t].pc = "returned" /\ req[t].op = "client"
    /\ req' = [req EXCEPT ![t] = Idle]
    /\ UNCHANGED sessions

(***************************************************************************)
(* Response bodies                                                         *)
(***************************************************************************)
\* jsonify({"error": ...})
ErrorBody == Obj(<<KV("error", Str(<<"e">>))>>)

\* jsonify({"message": ..., key: value})
OkBody(key, value) == Obj(<<KV("message", Str(<<"o", "k">>)), KV(key, value)>>)

(***************************************************************************)
(* upload_resume                                                           *)
(***************************************************************************)
\* request.files: no "resume" part, or an uploaded file with its filename
\* (stem and extension) and the text its pages or paragraphs yield.
NoFile == [given |-> FALSE, stem |-> "", ext |-> "", text |-> <<>>]

File(stem, ext, text) == [given |-> TRUE, stem |-> stem, ext |-> ext, text |-> text]

\* filename.lower() on the extension
Lower(ext) ==
    CASE ext = "PDF" -> "pdf"
      [] ext = "DOCX" -> "docx"
      [] OTHER -> ext

\* extract_text_smart raises ValueError for any other extension
Supported(file) == Lower(file.ext) \in {"pdf", "docx"}

\* extract_text_from_pdf / extract_text_from_docx: the stripped text
extract_text_smart(file) == StrStrip(file.text)

KeepNonEmpty(piece) == StrStrip(piece) # <<>>

\* [s.strip() for s in ks.split(",") if s.strip()]
SplitSkills(ks) ==
    LET kept == SelectSeq(Split(ks, ","), KeepNonEmpty)
    IN  [i \in 1..Len(kept) |-> Str(StrStrip(kept[i]))]

\* NormalizeKeySkills without its `elif not isinstance(ks, list)` branch
NormalizeKeySkillsStringsOnly(profile) ==
    LET ks == Get(profile, "key_skills", None)
    IN  IF IsStr(ks) THEN SetItem(profile, "key_skills", List(SplitSkills(ks.s)))
        ELSE profile

\* Lines 210-214: key_skills becomes a list.
NormalizeKeySkills(profile) ==
    LET ks == Get(profile, "key_skills", None)
    IN  IF IsStr(ks) THEN SetItem(profile, "key_skills", List(SplitSkills(ks.s)))
        ELSE IF ~IsList(ks) THEN SetItem(profile, "key_skills", List(<<>>))
        ELSE profile

\* Lines 170-201: up to the model call.
UploadStart(t, h, file, uuid) ==
    /\ req[t].pc = "idle"
    /\ h.present \/ uuid \notin DOMAIN sessions
    /\ LET session_id == IF h.present THEN h.id ELSE uuid
           r == [Idle EXCEPT !.op = "upload_resume", !.sid = session_id]
       IN  /\ sessions' = get_or_create_session(sessions, session_id)
           /\ req' = [req EXCEPT ![t] =
                  IF ~file.given THEN Respond(r, "400", ErrorBody)
                  ELSE IF file.stem = "" /\ file.ext = "" THEN Respond(r, "400", ErrorBody)
                  ELSE IF ~Supported(file) THEN Respond(r, "400", ErrorBody)
                  ELSE IF extract_text_smart(file) = <<>> THEN Respond(r, "400", ErrorBody)
                  ELSE CallGemini(r, DefaultRetries)]

\* Lines 203-219: after the model call.
UploadFinish(t) ==
    /\ req[t].pc = "returned"
    /\ req[t].op = "upload_resume"
    /\ LET r == req[t]
           cleaned == extract_json_from_gemini_response(r.ai_text)
       IN  IF r.ai_text.none \/ r.ai_text.text = <<>>
           THEN /\ req' = [req EXCEPT ![t] = Respond(r, "500", ErrorBody)]
                /\ UNCHANGED sessions
           ELSE IF \/ cleaned.none
                   \/ cleaned.text = <<>>
                   \/ ~JsonOk(cleaned.text)
                   \/ ~IsDict(JsonLoads(cleaned.text))
           THEN /\ req' = [req EXCEPT ![t] = Respond(r, "500", ErrorBody)]
                /\ UNCHANGED sessions
           ELSE LET profile == NormalizeKeySkills(JsonLoads(cleaned.text))
                IN  /\ sessions' = [sessions EXCEPT ![r.sid].candidate_profile = profile]
                    /\ req' = [req EXCEPT ![t] =
                                 Respond(r, "200", OkBody("candidate_profile", profile))]

(***************************************************************************)
(* setup_interview                                                         *)
(***************************************************************************)
\* ", ".join(x) raises TypeError unless x is an iterable of strings (a list
\* of strings, a string, or a dict, whose keys are strings).
JoinOk(x) ==
    \/ IsStr(x)
    \/ IsDict(x)
    \/ IsList(x) /\ \A i \in 1..Len(x.l) : IsStr(x.l[i])

\* Lines 223-245: up to the model call.  Lines 232-236 are outside the try.
SetupStart(t, h, position_role) ==
    /\ req[t].pc = "idle"
    /\ LET r == [Idle EXCEPT !.op = "setup_interview", !.sid = h.id,
                             !.position_role = position_role]
       IN  IF BadSession(h)
           THEN /\ req' = [req EXCEPT ![t] = Respond(r, "400", ErrorBody)]
                /\ UNCHANGED sessions
           ELSE IF ~Truthy(position_role) \/ ~Truthy(sessions[h.id].candidate_profile)
           THEN /\ req' = [req EXCEPT ![t] = Respond(r, "400", ErrorBody)]
                /\ UNCHANGED sessions
           ELSE IF ~IsDict(sessions[h.id].candidate_profile)
           THEN /\ req' = [req EXCEPT ![t] = Unhandled(r)]
                /\ UNCHANGED sessions
           ELSE LET profile == SetItem(sessions[h.id].candidate_profile,
                                       "position", position_role)
                IN  /\ sessions' = [sessions EXCEPT ![h.id].candidate_profile = profile]
                    /\ req' = [req EXCEPT ![t] =
                                 IF JoinOk(Get(profile, "key_skills", List(<<>>)))
                                 THEN CallGemini(r, DefaultRetries)
                                 ELSE Unhandled(r)]

\* StoreQuestions without the reset of interview_responses
StoreQuestionsKeepResponses(session, questions) ==
    [session EXCEPT !.interview_questions = questions,
                    !.interview_start_time = Now]

\* Lines 250-253: the stores of a successful setup.
StoreQuestions(session, questions) ==
    [session EXCEPT !.interview_questions = questions,
                    !.interview_responses = List(<<>>),
                    !.interview_start_time = Now]

\* Lines 247-257: after the model call.
SetupFinish(t) ==
    /\ req[t].pc = "returned"
    /\ req[t].op = "setup_interview"
    /\ LET r == req[t]
           cleaned == extract_json_from_gemini_response(r.ai_text)
       IN  IF r.ai_text.none \/ r.ai_text.text = <<>>
           THEN /\ req' = [req EXCEPT ![t] = Respond(r, "500", ErrorBody)]
                /\ UNCHANGED sessions
           ELSE IF cleaned.none \/ ~JsonOk(cleaned.text)
           THEN /\ req' = [req EXCEPT ![t] = Respond(r, "500", ErrorBody)]
                /\ UNCHANGED sessions
           ELSE LET questions == JsonLoads(cleaned.text)
                IN  /\ sessions' = [sessions EXCEPT ![r.sid] = StoreQuestions(@, questions)]
                    /\ req' = [req EXCEPT ![t] =
                                 Respond(r, "200", OkBody("questions", questions))]

(***************************************************************************)
(* submit_answer                                                           *)
(***************************************************************************)
MaxResponses == 2

\* What `for q in x` iterates over: the items of a list, the keys of a dict,
\* the characters of a string.  Anything else raises TypeError.
Iterable(x) == x.t \in {"list", "obj", "str"}

Elements(x) ==
    CASE x.t = "list" -> x.l
      [] x.t = "obj"  -> [i \in 1..Len(x.o) |-> Str(<<"k">>)]
      [] x.t = "str"  -> [i \in 1..Len(x.s) |-> Str(<<x.s[i]>>)]

\* next((q for q in els if q.get("id") == question_id), None): the scan
\* stops at the first match; q.get raises AttributeError on a non-dict item.
RECURSIVE FindQuestion(_, _)
FindQuestion(els, question_id) ==
    IF els = <<>> THEN [kind |-> "none", q |-> None]
    ELSE IF ~IsDict(Head(els)) THEN [kind |-> "raise", q |-> None]
    ELSE IF Get(Head(els), "id", None) = question_id THEN [kind |-> "found", q |-> Head(els)]
    ELSE FindQuestion(Tail(els), question_id)

\* Requests on session id that may still append a Response
PendingSubmits(id) ==
    {u \in Threads : req[u].op = "submit_answer" /\ req[u].sid = id
                     /\ req[u].pc \in {"gemini", "returned"}}

\* Lines 261-280: up to the model call.  Line 270 is outside the try.
SubmitStart(t, h, question_id, response_text, duration) ==
    /\ req[t].pc = "idle"
    /\ LET r == [Idle EXCEPT !.op = "submit_answer", !.sid = h.id,
                             !.question_id = question_id,
                             !.response_text = response_text,
                             !.duration = duration]
       IN  /\ ~BadSession(h) =>
                  Len(sessions[h.id].interview_responses.l)
                      + Cardinality(PendingSubmits(h.id)) < MaxResponses
           /\ req' = [req EXCEPT ![t] =
                  IF BadSession(h) THEN Respond(r, "400", ErrorBody)
                  ELSE IF ~Truthy(question_id) \/ ~Truthy(response_text)
                  THEN Respond(r, "400", ErrorBody)
                  ELSE IF ~Iterable(sessions[h.id].interview_questions) THEN Unhandled(r)
                  ELSE LET f == FindQuestion(Elements(sessions[h.id].interview_questions),
                                             question_id)
                       IN  IF f.kind = "raise" THEN Unhandled(r)
                           ELSE IF f.kind = "none" \/ ~Truthy(f.q)
                           THEN Respond(r, "404", ErrorBody)
                           ELSE CallGemini([r EXCEPT !.question_obj = f.q], DefaultRetries)]
    /\ UNCHANGED sessions

ScoreKeys == <<"technicalScore", "communicationScore", "relevanceScore">>

\* evaluation.get(key, 0) for the three sub-scores
SubScore(evaluation, i) == Get(evaluation, ScoreKeys[i], Num(0))

\* The sum and the division raise TypeError unless the sub-scores are numbers.
ScoresAddUp(evaluation) == \A i \in 1..3 : SubScore(evaluation, i).t = "num"

\* round((a + b + c) / 3): a third is never a tie
OverallScore(evaluation) ==
    LET total == SubScore(evaluation, 1).n + SubScore(evaluation, 2).n
                     + SubScore(evaluation, 3).n
    IN  (2 * total + 3) \div 6

\* Lines 288-292: the record appended to interview_responses.
ResponseRecord(r, evaluation) ==
    Obj(<<KV("question_id", r.question_id),
          KV("question", Get(r.question_obj, "question", None)),
          KV("tags", Get(r.question_obj, "tags", List(<<>>))),
          KV("response", r.response_text),
          KV("duration", r.duration),
          KV("evaluation", evaluation)>>)

\* Lines 282-296: after the model call.
SubmitFinish(t) ==
    /\ req[t].pc = "returned"
    /\ req[t].op = "submit_answer"
    /\ LET r == req[t]
           cleaned == extract_json_from_gemini_response(r.ai_text)
       IN  IF r.ai_text.none \/ r.ai_text.text = <<>>
           THEN /\ req' = [req EXCEPT ![t] = Respond(r, "500", ErrorBody)]
                /\ UNCHANGED sessions
           ELSE IF \/ cleaned.none
                   \/ ~JsonOk(cleaned.text)
                   \/ ~IsDict(JsonLoads(cleaned.text))
                   \/ ~ScoresAddUp(JsonLoads(cleaned.text))
           THEN /\ req' = [req EXCEPT ![t] = Respond(r, "500", ErrorBody)]
                /\ UNCHANGED sessions
           ELSE LET evaluation == SetItem(JsonLoads(cleaned.text), "score",
                                          Num(OverallScore(JsonLoads(cleaned.text))))
                IN  /\ sessions' = [sessions EXCEPT ![r.sid].interview_responses =
                                      List(Append(@.l, ResponseRecord(r, evaluation)))]
                    /\ req' = [req EXCEPT ![t] =
                                 Respond(r, "200", OkBody("evaluation", evaluation))]

(***************************************************************************)
(* get_assessment                                                          *)
(***************************************************************************)
SummaryKeys == <<"technicalScore", "communicationScore", "relevanceScore", "feedback">>

\* Lines 312-316 subscript r["question"], r["response"] and four keys of
\* r["evaluation"]; a missing key raises KeyError.
SummaryOk(r) ==
    /\ IsDict(r)
    /\ HasKey(r, "question")
    /\ HasKey(r, "response")
    /\ HasKey(r, "evaluation")
    /\ IsDict(Item(r, "evaluation"))
    /\ \A i \in 1..4 : HasKey(Item(r, "evaluation"), SummaryKeys[i])

\* Lines 317-320: mm, ss = map(int, (r.get("duration") or "0:0").split(":")),
\* with every exception swallowed.
DurationSeconds(r) ==
    LET given == Get(r, "duration", None)
        d == IF Truthy(given) THEN given ELSE Str(<<"0", ":", "0">>)
    IN  IF ~IsStr(d) THEN 0
        ELSE LET parts == Split(d.s, ":")
             IN  IF Len(parts) = 2 /\ IntOk(parts[1]) /\ IntOk(parts[2])
                 THEN IntVal(parts[1]) * 60 + IntVal(parts[2])
                 ELSE 0

RECURSIVE TotalDuration(_)
TotalDuration(rs) ==
    IF rs = <<>> THEN 0 ELSE DurationSeconds(Head(rs)) + TotalDuration(Tail(rs))

\* FormatDuration with the seconds not reduced modulo 60
FormatDurationNoModulo(total) ==
    IntStr(total \div 60) \o <<"m", " ">> \o IntStr(total) \o <<"s">>

\* Lines 322-324: f"{total // 60}m {total % 60}s"
FormatDuration(total) ==
    IntStr(total \div 60) \o <<"m", " ">> \o IntStr(total % 60) \o <<"s">>

\* NothingToAssess that lets every session through
NothingToAssessNever(session) == FALSE

\* Line 305: `if not session["interview_responses"]`
NothingToAssess(session) == ~Truthy(session.interview_responses)

\* Lines 300-342: up to the model call.  Lines 308-327 are outside the try.
AssessStart(t, h) ==
    /\ req[t].pc = "idle"
    /\ LET r == [Idle EXCEPT !.op = "get_assessment", !.sid = h.id]
       IN  IF BadSession(h)
           THEN /\ req' = [req EXCEPT ![t] = Respond(r, "400", ErrorBody)]
                /\ UNCHANGED sessions
           ELSE IF NothingToAssess(sessions[h.id])
           THEN /\ req' = [req EXCEPT ![t] = Respond(r, "400", ErrorBody)]
                /\ UNCHANGED sessions
           ELSE LET rs == sessions[h.id].interview_responses.l
                IN  /\ sessions' = [sessions EXCEPT ![h.id].interview_end_time = Now]
                    /\ req' = [req EXCEPT ![t] =
                          IF \E i \in 1..Len(rs) : ~SummaryOk(rs[i]) THEN Unhandled(r)
                          ELSE CallGemini(
                                 [r EXCEPT !.interview_duration_str =
                                              FormatDuration(TotalDuration(rs))],
                                 DefaultRetries)]

\* Lines 344-355: after the model call.
AssessFinish(t) ==
    /\ req[t].pc = "returned"
    /\ req[t].op = "get_assessment"
    /\ LET r == req[t]
           cleaned == extract_json_from_gemini_response(r.ai_text)
       IN  IF r.ai_text.none \/ r.ai_text.text = <<>>
           THEN /\ req' = [req EXCEPT ![t] = Respond(r, "500", ErrorBody)]
                /\ UNCHANGED sessions
           ELSE IF \/ cleaned.none
                   \/ ~JsonOk(cleaned.text)
                   \/ ~IsDict(JsonLoads(cleaned.text))
           THEN /\ req' = [req EXCEPT ![t] = Respond(r, "500", ErrorBody)]
                /\ UNCHANGED sessions
           ELSE LET assessment == SetItem(JsonLoads(cleaned.text), "interviewDuration",
                                          Str(r.interview_duration_str))
                IN  /\ sessions' = [sessions EXCEPT ![r.sid].interview_assessment = assessment]
                    /\ req' = [req EXCEPT ![t] =
                                 Respond(r, "200", OkBody("assessment", assessment))]

(***************************************************************************)
(* The environment: what clients send and what the model answers           *)
(***************************************************************************)
SkillsText == <<"a", ",", " ", ",", " ", "b", " ">>

ProfileSkillsString == Obj(<<KV("name", Str(<<"n">>)), KV("key_skills", Str(SkillsText))>>)

ProfileSkillsList == Obj(<<KV("key_skills", List(<<Str(<<"a">>)>>))>>)

ProfileSkillsNumber == Obj(<<KV("key_skills", Num(42))>>)

ProfileNoSkills == Obj(<<KV("name", Str(<<"n">>))>>)

ProfileSkillsMixed == Obj(<<KV("key_skills", List(<<Num(42)>>))>>)

Question(id) == Obj(<<KV("id", Str(<<id>>)), KV("question", Str(<<"x">>))>>)

QuestionsA == List(<<Question("1"), Question("2")>>)

QuestionsB == List(<<Question("2")>>)

QuestionsNotDicts == List(<<Num(7)>>)

EvaluationFull ==
    Obj(<<KV("technicalScore", Num(80)), KV("communicationScore", Num(70)),
          KV("relevanceScore", Num(90)), KV("feedback", Str(<<"f">>))>>)

EvaluationPartial == Obj(<<KV("technicalScore", Num(80))>>)

EvaluationText == Obj(<<KV("technicalScore", Str(<<"x">>))>>)

AssessmentFull ==
    Obj(<<KV("overallScore", Num(70)), KV("interviewDuration", Str(<<"9", "m">>))>>)

AssessmentNoDuration == Obj(<<KV("overallScore", Num(70))>>)

\* A response that is exactly the serialisation of v
Plain(v) == Text(<<TJson(v)>>)

\* The same inside a ```json fence
Fenced(v) == Text(<<TFence, TWs, TJson(v), TWs, TTicks>>)

Junk == Text(<<TJunk>>)

PdfWithText == File("cv", "PDF", <<" ", "r", " ">>)

PdfNoText == File("cv", "pdf", <<" ">>)

DocxWithText == File("cv", "docx", <<"r">>)

TextFile == File("cv", "txt", <<"r">>)

NoFilename == File("", "", <<"r">>)

Ops == {"none", "client", "upload_resume", "setup_interview", "submit_answer",
        "get_assessment"}

\* One client, one session, well-formed requests and model answers
MinimalEnv ==
    [threads     |-> {"t1"},
     uploads     |-> {Header("s1")},
     headers     |-> {Header("s1")},
     uuids       |-> {"u1"},
     files       |-> {PdfWithText},
     roles       |-> {Str(<<"r">>)},
     qids        |-> {Str(<<"1">>)},
     texts       |-> {Str(<<"a">>)},
     durations   |-> {None},
     replies     |-> [op \in Ops |->
                        CASE op = "upload_resume"   -> {Plain(ProfileSkillsList)}
                          [] op = "setup_interview" -> {Plain(QuestionsA)}
                          [] op = "submit_answer"   -> {Plain(EvaluationFull)}
                          [] op = "get_assessment"  -> {Plain(AssessmentFull)}
                          [] OTHER -> {}]]

\* Two requests in flight on one session; the model may replace question 1.
ConcurrentEnv ==
    [MinimalEnv EXCEPT
       !.threads = Threads,
       !.replies = [op \in Ops |->
                      CASE op = "setup_interview" -> {Raises, Plain(QuestionsA), Plain(QuestionsB)}
                        [] op = "submit_answer"   -> {Raises, Plain(EvaluationFull)}
                        [] OTHER -> MinimalEnv.replies[op]]]

\* One request at a time; every shape of request and of model answer that a
\* handler tells apart.
SequentialEnv ==
    [MinimalEnv EXCEPT
       !.headers = {Header("s1"), Header("zz"), NoHeader},
       !.files = {PdfWithText, PdfNoText, DocxWithText, TextFile, NoFile, NoFilename},
       !.roles = {Str(<<"r">>), None},
       !.qids = {Str(<<"1">>), Str(<<"9">>), None},
       !.texts = {Str(<<"a">>), None},
       !.replies = [op \in Ops |->
                      CASE op = "upload_resume" ->
                             {Raises, Plain(ProfileSkillsString), Plain(ProfileSkillsList),
                              Plain(ProfileSkillsNumber), Plain(ProfileNoSkills),
                              Plain(ProfileSkillsMixed), Plain(List(<<>>))}
                        [] op = "setup_interview" ->
                             {Raises, Plain(QuestionsA), Plain(QuestionsB),
                              Plain(QuestionsNotDicts), Plain(Num(5))}
                        [] op = "submit_answer" ->
                             {Raises, Plain(EvaluationFull), Plain(EvaluationPartial),
                              Plain(EvaluationText), Plain(List(<<>>))}
                        [] op = "get_assessment" ->
                             {Raises, Plain(AssessmentFull), Plain(None)}
                        [] OTHER -> {}]]

\* One request at a time, with every shape of duration a client may send
DurationEnv ==
    [MinimalEnv EXCEPT
       !.durations = {Str(<<"1", ":", "3", "0">>), Str(<<"0", ":", "4", "5">>),
                      Str(<<"b", "a", "d">>), Str(<<"-", "2", ":", "3", "0">>),
                      Str(<<"1", ":", "2", ":", "3">>), Num(90), None},
       !.replies = [op \in Ops |->
                      CASE op = "get_assessment" ->
                             {Plain(AssessmentFull), Plain(AssessmentNoDuration), Plain(None)}
                        [] OTHER -> MinimalEnv.replies[op]]]

\* One request at a time on several sessions, named by the client or generated
StoreEnv ==
    [MinimalEnv EXCEPT
       !.uploads = {Header("s1"), Header("s2"), NoHeader},
       !.headers = {Header("s1"), Header("s2"), Header("u1"), Header("zz"), NoHeader},
       !.uuids = {"u1", "u2"},
       !.files = {PdfWithText, TextFile}]

(***************************************************************************)
(* Specifications                                                          *)
(***************************************************************************)
Init ==
    /\ sessions = <<>>
    /\ req = [t \in Threads |-> Idle]

\* Any step of any request handler, with inputs drawn from the environment E
HandlerStep(E) ==
    \E t \in E.threads :
        \/ \E h \in E.uploads, f \in E.files, u \in E.uuids : UploadStart(t, h, f, u)
        \/ UploadFinish(t)
        \/ \E h \in E.headers, role \in E.roles : SetupStart(t, h, role)
        \/ SetupFinish(t)
        \/ \E h \in E.headers, q \in E.qids, x \in E.texts, d \in E.durations :
               SubmitStart(t, h, q, x, d)
        \/ SubmitFinish(t)
        \/ \E h \in E.headers : AssessStart(t, h)
        \/ AssessFinish(t)
        \/ \E resp \in E.replies[req[t].op] : GeminiAttempt(t, resp)
        \/ Retire(t)

Next == HandlerStep(ConcurrentEnv)

Spec == Init /\ [][Next]_vars

SeqNext == HandlerStep(SequentialEnv)

SeqSpec == Init /\ [][SeqNext]_vars

DurationNext == HandlerStep(DurationEnv)

DurationSpec == Init /\ [][DurationNext]_vars

StoreNext == HandlerStep(StoreEnv)

StoreSpec == Init /\ [][StoreNext]_vars

MaxRetries == 3

\* Direct calls of the client with every retry budget and every kind of answer
ClientReplies ==
    {Raises, Empty, Text(<<>>), Junk, Text(<<TWs>>),
     Plain(ProfileSkillsList), Text(<<TWs, TJson(Num(1)), TWs>>),
     Fenced(ProfileSkillsList)}

ClientNext ==
    \E t \in Threads :
        \/ \E n \in 1..MaxRetries : ClientCall(t, n)
        \/ \E resp \in ClientReplies : GeminiAttempt(t, resp)
        \/ Retire(t)

ClientSpec == Init /\ [][ClientNext]_vars

(***************************************************************************)
(* Properties                                                              *)
(***************************************************************************)
\* The answer is the text of one JSON value, whitespace around it allowed.
ValidJsonReply(resp) ==
    /\ resp.kind = "text"
    /\ \E i \in 1..Len(resp.text) :
           /\ resp.text[i].k = "json"
           /\ \A j \in 1..Len(resp.text) : j # i => resp.text[j].k = "ws"

\* C1: a call generate_content_with_gemini(model, prompt, retries = n), n >= 1,
\* keeps calling the model only while every answer so far failed and fewer
\* than n calls were made; it returns None only after exactly n calls, all
\* failed; and it returns a text only when that text is the valid JSON answer
\* of the last call, call number k <= n, after k - 1 failed calls.
RetryBudget ==
    \A t \in Threads :
        LET r == req[t]
        IN  /\ r.pc = "gemini" =>
                  /\ r.calls < r.retries
                  /\ r.calls > 0 => ~ValidJsonReply(r.resp)
            /\ r.pc = "returned" /\ r.ai_text.none =>
                  /\ r.calls = r.retries
                  /\ ~ValidJsonReply(r.resp)
            /\ r.pc = "returned" /\ ~r.ai_text.none =>
                  /\ r.calls \in 1..r.retries
                  /\ ValidJsonReply(r.resp)
                  /\ r.ai_text.text = r.resp.text

\* One call returned None after three calls, the last an exception, while
\* another returned the answer of its second call.
RetryBudgetWitness ==
    /\ req["t1"].op = "client" /\ req["t1"].pc = "returned" /\ req["t1"].ai_text.none
    /\ req["t1"].retries = 3 /\ req["t1"].calls = 3 /\ req["t1"].resp = Raises
    /\ req["t2"].op = "client" /\ req["t2"].pc = "returned" /\ ~req["t2"].ai_text.none
    /\ req["t2"].retries = 3 /\ req["t2"].calls = 2

\* The answer holds a ```json fence around the text of one JSON value.
FencedJsonReply(resp) ==
    /\ resp.kind = "text"
    /\ FenceMatches(resp.text) # {}
    /\ JsonOk(extract_json_from_gemini_response(Just(resp.text)).text)

\* C9: an attempt whose answer is valid JSON inside a ```json fence is a
\* successful attempt: the client returns it instead of retrying.
FencedJsonAccepted ==
    \A t \in Threads :
        req[t].calls > 0 /\ FencedJsonReply(req[t].resp) =>
            req[t].pc = "returned" /\ ~req[t].ai_text.none

\* C2: every request ends in one of the responses its handler defines: 200,
\* or 400, 404 or 500 with an error body; no exception leaves a handler.
NoUnhandledException ==
    \A t \in Threads :
        req[t].pc = "responded" =>
            /\ req[t].status \in {"200", "400", "404", "500"}
            /\ req[t].status # "200" => HasKey(req[t].body, "error")

\* The ids of the entries of a session's interview_questions
QuestionIds(session) ==
    IF IsList(session.interview_questions)
    THEN {Item(session.interview_questions.l[i], "id") :
            i \in {j \in 1..Len(session.interview_questions.l) :
                     /\ IsDict(session.interview_questions.l[j])
                     /\ HasKey(session.interview_questions.l[j], "id")}}
    ELSE {}

Integrity(session) ==
    \A i \in 1..Len(session.interview_responses.l) :
        Item(session.interview_responses.l[i], "question_id") \in QuestionIds(session)

\* C3, as claimed: in every reachable state, under every interleaving, every
\* record of interview_responses has the question_id of an entry currently in
\* interview_questions.
ReferentialIntegrity == \A id \in DOMAIN sessions : Integrity(sessions[id])

\* No submit_answer waiting on the model has lost the question it looked up.
NoStaleSubmit ==
    \A t \in Threads :
        req[t].op = "submit_answer" /\ req[t].pc \in {"gemini", "returned"} =>
            req[t].question_id \in QuestionIds(sessions[req[t].sid])

\* C3, amended: a step taken where referential integrity holds and where
\* every submit_answer waiting on the model still finds its question in
\* interview_questions leads to a state where referential integrity holds.
IntegrityUnlessStaleSubmit ==
    [][ReferentialIntegrity /\ NoStaleSubmit => ReferentialIntegrity']_vars

\* A response is recorded for a current question while a setup_interview and
\* another submit_answer are waiting on the model.
IntegrityWitness ==
    /\ "s1" \in DOMAIN sessions
    /\ Len(sessions["s1"].interview_responses.l) >= 1
    /\ Integrity(sessions["s1"])
    /\ NoStaleSubmit
    /\ req["t1"].op = "setup_interview" /\ req["t1"].pc = "gemini"
    /\ req["t2"].op = "submit_answer" /\ req["t2"].pc = "returned"

\* Thread t takes the first step of a request of kind op.
Starts(t, op) == req[t].pc = "idle" /\ req'[t].op = op

\* Thread t takes the last step of a request of kind op and answers 200.
Succeeds(t, op) ==
    /\ req[t].pc = "returned" /\ req[t].op = op
    /\ req'[t].pc = "responded" /\ req'[t].status = "200"

\* C4: the set of session identifiers only grows; an identifier enters the
\* store with a record of empty/null defaults; the first step of
\* upload_resume, which calls get_or_create_session, changes no record that
\* exists already; and no step takes a record back to the defaults.
SessionsOnlyGrow ==
    [][/\ DOMAIN sessions \subseteq DOMAIN sessions'
       /\ \A id \in DOMAIN sessions' \ DOMAIN sessions : sessions'[id] = NewSession
       /\ \A id \in DOMAIN sessions :
              sessions[id] # NewSession => sessions'[id] # NewSession
       /\ \A t \in Threads :
              Starts(t, "upload_resume") =>
                  /\ req'[t].sid \in DOMAIN sessions'
                  /\ \A id \in DOMAIN sessions : sessions'[id] = sessions[id]]_vars

\* upload_resume was called again for a session that holds a profile and
\* questions, with three sessions in the store.
SessionsOnlyGrowWitness ==
    /\ Cardinality(DOMAIN sessions) >= 3
    /\ req["t1"].op = "upload_resume" /\ req["t1"].pc = "gemini"
    /\ req["t1"].sid = "s1"
    /\ sessions["s1"].candidate_profile # None
    /\ sessions["s1"].interview_questions # List(<<>>)

\* The position of the only colon of a string
Colons(s) == {i \in 1..Len(s) : s[i] = ":"}

\* The seconds of a duration of the form minutes:seconds; 0 for any other
ClaimedSeconds(v) ==
    IF IsStr(v) /\ Cardinality(Colons(v.s)) = 1
    THEN LET i == CHOOSE i \in Colons(v.s) : TRUE
             minutes == SubSeq(v.s, 1, i - 1)
             seconds == SubSeq(v.s, i + 1, Len(v.s))
         IN  IF IntOk(minutes) /\ IntOk(seconds)
             THEN IntVal(minutes) * 60 + IntVal(seconds)
             ELSE 0
    ELSE 0

RECURSIVE ClaimedTotal(_, _)
ClaimedTotal(rs, n) ==
    IF n = 0 THEN 0
    ELSE ClaimedTotal(rs, n - 1) + ClaimedSeconds(Get(rs[n], "duration", None))

\* C5: when get_assessment succeeds, the assessment it returns is the one
\* stored, and its interviewDuration is "Xm Ys" with 60 * X + Y the sum of
\* minutes * 60 + seconds over the recorded responses, a malformed or
\* missing duration counting 0; the model's own interviewDuration is gone.
AssessmentDuration ==
    \A t \in Threads :
        req[t].op = "get_assessment" /\ req[t].pc = "responded" /\ req[t].status = "200" =>
            LET a == Item(req[t].body, "assessment")
                rs == sessions[req[t].sid].interview_responses.l
            IN  /\ sessions[req[t].sid].interview_assessment = a
                /\ HasKey(a, "interviewDuration")
                /\ \E X \in -10..10, Y \in 0..59 :
                       /\ 60 * X + Y = ClaimedTotal(rs, Len(rs))
                       /\ Item(a, "interviewDuration")
                              = Str(IntStr(X) \o <<"m", " ">> \o IntStr(Y) \o <<"s">>)

\* Durations "1:30" and "bad" were recorded, the model answered with its own
\* interviewDuration, and the assessment says "1m 30s".
AssessmentDurationWitness ==
    /\ req["t1"].op = "get_assessment" /\ req["t1"].pc = "responded"
    /\ req["t1"].status = "200"
    /\ req["t1"].ai_text.text = <<TJson(AssessmentFull)>>
    /\ Len(sessions["s1"].interview_responses.l) = 2
    /\ Item(sessions["s1"].interview_responses.l[1], "duration") = Str(<<"1", ":", "3", "0">>)
    /\ Item(sessions["s1"].interview_responses.l[2], "duration") = Str(<<"b", "a", "d">>)
    /\ Item(sessions["s1"].interview_assessment, "interviewDuration")
           = Str(<<"1", "m", " ", "3", "0", "s">>)

IsSkillChar(c) == c # " " /\ c # ","

RECURSIVE JoinItems(_)
JoinItems(l) == IF l = <<>> THEN <<>> ELSE Head(l).s \o JoinItems(Tail(l))

\* A list of trimmed, non-empty, comma-free strings that holds the characters
\* of the comma-separated string s, in order
IsSplitOf(l, s) ==
    /\ \A i \in 1..Len(l) :
           /\ IsStr(l[i]) /\ l[i].s # <<>>
           /\ l[i].s[1] # " " /\ l[i].s[Len(l[i].s)] # " "
           /\ \A j \in 1..Len(l[i].s) : l[i].s[j] # ","
    /\ Len(l) = Cardinality({i \in 1..Len(s) :
                               /\ IsSkillChar(s[i])
                               /\ \/ i = 1
                                  \/ \E j \in 1..(i - 1) :
                                         /\ s[j] = ","
                                         /\ \A k \in (j + 1)..(i - 1) : s[k] = " "})
    /\ SelectSeq(JoinItems(l), IsSkillChar) = SelectSeq(s, IsSkillChar)

\* C6: a stored candidate_profile is a dict whose key_skills is a list; the
\* profile upload_resume returns has the model's list unchanged, the model's
\* comma-separated string split into its trimmed non-empty items, and the
\* empty list for anything else, a missing key_skills included.
KeySkillsIsList ==
    /\ \A id \in DOMAIN sessions :
           \/ sessions[id].candidate_profile = None
           \/ /\ IsDict(sessions[id].candidate_profile)
              /\ HasKey(sessions[id].candidate_profile, "key_skills")
              /\ IsList(Item(sessions[id].candidate_profile, "key_skills"))
    /\ \A t \in Threads :
           req[t].op = "upload_resume" /\ req[t].pc = "responded" /\ req[t].status = "200" =>
               LET raw == JsonLoads(req[t].ai_text.text)
                   ks == Get(raw, "key_skills", None)
                   got == Item(Item(req[t].body, "candidate_profile"), "key_skills")
               IN  /\ IsDict(raw)
                   /\ IsList(ks) => got = ks
                   /\ IsStr(ks) => IsList(got) /\ IsSplitOf(got.l, ks.s)
                   /\ ~IsList(ks) /\ ~IsStr(ks) => got = List(<<>>)

\* The model returned key_skills "a, , b " and the profile holds ["a", "b"].
KeySkillsIsListWitness ==
    /\ req["t1"].op = "upload_resume" /\ req["t1"].pc = "responded"
    /\ req["t1"].status = "200" /\ req["t1"].sid = "s1"
    /\ Get(JsonLoads(req["t1"].ai_text.text), "key_skills", None) = Str(SkillsText)
    /\ Item(sessions["s1"].candidate_profile, "key_skills")
           = List(<<Str(<<"a">>), Str(<<"b">>)>>)

\* C7: submit_answer on an existing session with a non-empty question_id and
\* response_text, where no entry of interview_questions has that id, answers
\* 404, calls the model not once and leaves every session as it was.
UnknownQuestionIs404 ==
    [][\A t \in Threads :
           /\ Starts(t, "submit_answer")
           /\ req'[t].sid \in DOMAIN sessions
           /\ Truthy(req'[t].question_id)
           /\ Truthy(req'[t].response_text)
           /\ req'[t].question_id \notin QuestionIds(sessions[req'[t].sid])
           => /\ req'[t].pc = "responded"
              /\ req'[t].status = "404"
              /\ req'[t].calls = 0
              /\ sessions' = sessions]_vars

\* C8: get_assessment on an existing session with no recorded response
\* answers 400, calls the model not once and leaves every session as it was
\* (no interview_end_time, no interview_assessment); and with one request at
\* a time an assessment is stored only when a response is recorded.
AssessmentNeedsResponses ==
    [][\A t \in Threads :
           /\ /\ Starts(t, "get_assessment")
              /\ req'[t].sid \in DOMAIN sessions
              /\ sessions[req'[t].sid].interview_responses = List(<<>>)
              => /\ req'[t].pc = "responded"
                 /\ req'[t].status = "400"
                 /\ req'[t].calls = 0
                 /\ sessions' = sessions
           /\ Succeeds(t, "get_assessment") =>
                  /\ sessions'[req[t].sid].interview_assessment # Missing
                  /\ Len(sessions'[req[t].sid].interview_responses.l) >= 1
           /\ \A id \in DOMAIN sessions :
                  sessions'[id].interview_assessment # sessions[id].interview_assessment =>
                      /\ Len(sessions[id].interview_responses.l) >= 1
                      /\ Len(sessions'[id].interview_responses.l) >= 1]_vars

\* get_assessment was refused on a session that holds questions but no
\* response, and the session has no end time and no assessment.
AssessmentNeedsResponsesWitness ==
    /\ req["t1"].op = "get_assessment" /\ req["t1"].pc = "responded"
    /\ req["t1"].status = "400" /\ req["t1"].sid = "s1"
    /\ "s1" \in DOMAIN sessions
    /\ sessions["s1"].interview_questions = QuestionsA
    /\ sessions["s1"].interview_responses = List(<<>>)
    /\ sessions["s1"].interview_end_time = None
    /\ sessions["s1"].interview_assessment = Missing

\* C10: setup_interview with a role, on a session whose candidate_profile is
\* not null, goes on to the model whatever else the session holds; and when
\* it succeeds, interview_questions is the value the model returned,
\* interview_responses is empty, interview_start_time is set and
\* candidate_profile.position is the role.
SetupAcceptedAndStored ==
    [][\A t \in Threads :
           /\ /\ Starts(t, "setup_interview")
              /\ req'[t].sid \in DOMAIN sessions
              /\ Truthy(req'[t].position_role)
              /\ sessions[req'[t].sid].candidate_profile # None
              => req'[t].pc = "gemini"
           /\ Succeeds(t, "setup_interview") =>
                  LET session == sessions'[req[t].sid]
                  IN  /\ session.interview_questions = JsonLoads(req[t].ai_text.text)
                      /\ session.interview_responses = List(<<>>)
                      /\ session.interview_start_time # None
                      /\ Get(session.candidate_profile, "position", None)
                             = req[t].position_role]_vars

====
